---------------------------- MODULE Spec2Model ----------------------------
(***************************************************************************)
(* A model of the fake-news detector: the text normalisers of app.py, the  *)
(* frame sampler / duplicate detector / frame-text extractor of            *)
(* utils/video_processor.py, the oracle wrapper of utils/verifier.py, the  *)
(* verdict cache and the pipeline run of app.py.                           *)
(*                                                                         *)
(* A text is a sequence of one-character strings.  The fixed preamble of   *)
(* the verification prompt is carried as one element of such a sequence.   *)
(***************************************************************************)
EXTENDS Integers, Sequences, FiniteSets, TLC

VARIABLES
    cache,                \* st.cache_data store of cached_verify_with_bard: prompt -> verdict
    oracle_calls,         \* how many times verify_with_bard ran, per prompt
    first_verdict,        \* history: the verdict the first request for each prompt was shown
    pc,                   \* position of the current run / of the function under call
    video_path,           \* the video source of the run
    subtitle_path,        \* the subtitle file of the run, or None
    transcript,           \* process_video_and_audio: transcript
    duplicate_report,     \* process_video_and_audio: duplicate_report
    subtitle_text,        \* process_video_and_audio: subtitle_text
    frame_text,           \* process_video_and_audio: frame_text
    verification_prompt,  \* process_video_and_audio / main: verification_prompt
    verification,         \* the value written where the verdict goes
    confidence,           \* 90 or 85 (percent), or None
    oracle,               \* what the request met at the oracle: "hit", "returned", "raised"
    raised_in,            \* the stage whose exception left the run, or None
    arg,                  \* arguments of the function under call
    ret                   \* its result

processVars == << cache, oracle_calls, first_verdict >>

runVars == << video_path, subtitle_path, transcript, duplicate_report,
              subtitle_text, frame_text, verification_prompt, verification,
              confidence, oracle, raised_in >>

callVars == << arg, ret >>

vars == << processVars, pc, runVars, callVars >>

\* Python's None: for a name, and for an optional value (Some(x) when present)
None == "None"

Absent == << >>

Some(x) == <<x>>

-----------------------------------------------------------------------------
(* Character classes of Python's re module on the characters used here.    *)

Digits == {"0", "1", "2", "3", "4", "5", "6", "7", "8", "9"}

Letters == {"a", "b", "c", "d", "e", "f", "g", "h", "i", "j", "k", "l", "m",
            "n", "o", "p", "q", "r", "s", "t", "u", "v", "w", "x", "y", "z",
            "A", "B", "C", "D", "E", "F", "G", "H", "I", "J", "K", "L", "M",
            "N", "O", "P", "Q", "R", "S", "T", "U", "V", "W", "X", "Y", "Z"}

\* \d
IsDigit(c) == c \in Digits

\* \w
IsWord(c) == c \in Digits \cup Letters \cup {"_"}

\* \s, and the characters str.strip() removes
IsSpace(c) == c \in {" ", "\t", "\n", "\r", "\f"}

\* \b between s[i-1] and s[i], for i in 1..Len(s)+1
WordAt(s, i) == i >= 1 /\ i <= Len(s) /\ IsWord(s[i])

Boundary(s, i) == WordAt(s, i - 1) # WordAt(s, i)

-----------------------------------------------------------------------------
(* re.sub(r'\b\d{1,2}:\d{2}(:\d{2}(\.\d{1,3})?)?\b', '', text)              *)

Rep(c, n) == [k \in 1..n |-> c]

\* One way through the pattern: nd leading digits, the optional group, and
\* nf fractional digits (0: no fraction).  "d" stands for \d.
TsShape(nd, group, nf) ==
    Rep("d", nd) \o <<":">> \o Rep("d", 2) \o
    (IF group
        THEN <<":">> \o Rep("d", 2) \o (IF nf > 0 THEN <<".">> \o Rep("d", nf) ELSE <<>>)
        ELSE <<>>)

\* The ways through the pattern in the order the backtracking matcher tries
\* them: every quantifier is greedy.
TsShapes ==
    << TsShape(2, TRUE, 3), TsShape(2, TRUE, 2), TsShape(2, TRUE, 1),
       TsShape(2, TRUE, 0), TsShape(2, FALSE, 0),
       TsShape(1, TRUE, 3), TsShape(1, TRUE, 2), TsShape(1, TRUE, 1),
       TsShape(1, TRUE, 0), TsShape(1, FALSE, 0) >>

\* s[i .. i+Len(shape)-1] has the shape, with \b on both sides.
TsFits(s, i, shape) ==
    /\ i + Len(shape) - 1 <= Len(s)
    /\ \A k \in 1..Len(shape) :
          IF shape[k] = "d" THEN IsDigit(s[i + k - 1]) ELSE s[i + k - 1] = shape[k]
    /\ Boundary(s, i)
    /\ Boundary(s, i + Len(shape))

\* Length of the match of the timestamp pattern that starts at i; 0: none.
TsMatchLen(s, i) ==
    LET fit == {j \in 1..Len(TsShapes) : TsFits(s, i, TsShapes[j])}
    IN  IF fit = {} THEN 0
        ELSE Len(TsShapes[CHOOSE j \in fit : \A k \in fit : j <= k])

RECURSIVE SubTimestamps(_, _)
SubTimestamps(s, i) ==
    IF i > Len(s) THEN <<>>
    ELSE LET n == TsMatchLen(s, i)
         IN  IF n > 0 THEN SubTimestamps(s, i + n)
             ELSE <<s[i]>> \o SubTimestamps(s, i + 1)

-----------------------------------------------------------------------------
(* re.sub(r'<[^>]+>', '', text)                                            *)

\* Length of the match of <[^>]+> that starts at i; 0: none.  [^>]+ runs to
\* the first ">" after i and must take at least one character.
TagMatchLen(s, i) ==
    IF s[i] # "<" THEN 0
    ELSE LET closers == {j \in (i + 1)..Len(s) : s[j] = ">"}
         IN  IF closers = {} THEN 0
             ELSE LET j == CHOOSE c \in closers : \A d \in closers : c <= d
                  IN  IF j = i + 1 THEN 0 ELSE j - i + 1

RECURSIVE SubTags(_, _)
SubTags(s, i) ==
    IF i > Len(s) THEN <<>>
    ELSE LET n == TagMatchLen(s, i)
         IN  IF n > 0 THEN SubTags(s, i + n)
             ELSE <<s[i]>> \o SubTags(s, i + 1)

-----------------------------------------------------------------------------
(* re.sub(r'\s+', ' ', text).strip()                                       *)

RECURSIVE SubSpaces(_, _)
SubSpaces(s, i) ==
    IF i > Len(s) THEN <<>>
    ELSE IF IsSpace(s[i])
         THEN IF i > 1 /\ IsSpace(s[i - 1]) THEN SubSpaces(s, i + 1)
              ELSE <<" ">> \o SubSpaces(s, i + 1)
         ELSE <<s[i]>> \o SubSpaces(s, i + 1)

\* str.strip()
Strip(s) ==
    LET solid == {i \in 1..Len(s) : ~IsSpace(s[i])}
    IN  IF solid = {} THEN <<>>
        ELSE LET lo == CHOOSE i \in solid : \A j \in solid : i <= j
                 hi == CHOOSE i \in solid : \A j \in solid : i >= j
             IN  SubSeq(s, lo, hi)

remove_timestamps_and_tags(text) ==
    LET t1 == SubTimestamps(text, 1)
        t2 == SubTags(t1, 1)
    IN  Strip(SubSpaces(t2, 1))

clean_extracted_text(text) ==
    IF text = <<>> THEN <<>> ELSE remove_timestamps_and_tags(text)

-----------------------------------------------------------------------------
(* Results of calls that may raise.                                        *)

Returned(v) == [raised |-> FALSE, value |-> v]

Raised(e) == [raised |-> TRUE, value |-> e]

RECURSIVE Join(_, _)
\* sep.join(parts)
Join(parts, sep) ==
    IF parts = <<>> THEN <<>>
    ELSE IF Len(parts) = 1 THEN parts[1]
    ELSE parts[1] \o sep \o Join(Tail(parts), sep)

-----------------------------------------------------------------------------
(* vtt_to_plaintext: the file is the sequence of its lines.                *)

\* '-->' in line
HasArrow(line) ==
    \E i \in 1..(Len(line) - 2) :
        line[i] = "-" /\ line[i + 1] = "-" /\ line[i + 2] = ">"

\* re.match(r'^\d+$', line)
AllDigits(line) == line # <<>> /\ \A i \in 1..Len(line) : IsDigit(line[i])

RECURSIVE VttLines(_, _)
VttLines(file, i) ==
    IF i > Len(file) THEN <<>>
    ELSE LET line == Strip(file[i])
         IN  IF line = <<>> \/ HasArrow(line) \/ AllDigits(line)
             THEN VttLines(file, i + 1)
             ELSE <<line>> \o VttLines(file, i + 1)

vtt_to_plaintext(file) == Join(VttLines(file, 1), <<" ">>)

-----------------------------------------------------------------------------
(* The evidence aggregator and the prompt template.                        *)

Preamble ==
    <<"Please analyze the following news content and answer:\n- Is this news genuine (true) or false?\n- Provide reasons supporting your conclusion.\n\nNews content:\n">>

create_verification_prompt(text) == Preamble \o text

\* the join with the subtitles put before the transcript
combined_text_subtitles_first(t, s, f) ==
    clean_extracted_text(
        Join(SelectSeq(<<s, t, f>>, LAMBDA x : x # <<>>), <<"\n">>))

\* "\n".join(filter(None, [transcript, subtitle_text, frame_text])), cleaned
combined_text(t, s, f) ==
    clean_extracted_text(
        Join(SelectSeq(<<t, s, f>>, LAMBDA x : x # <<>>), <<"\n">>))

-----------------------------------------------------------------------------
(* utils/verifier.py and the st.cache_data wrapper.  An oracle outcome is  *)
(* what bard.get_answer does on one call: it returns content or raises.    *)

BardError(e) == "Bard Error: " \o e

verify_with_bard(text, outcome) ==
    IF outcome.raised THEN Returned(BardError(outcome.value))
    ELSE Returned(outcome.value)

\* cached_verify_with_bard with the lookup lost: every request runs the
\* wrapped function and overwrites the stored verdict
cached_verify_without_lookup(store, text, outcome) ==
    LET r == verify_with_bard(text, outcome)
    IN  [result |-> r,
         cache  |-> IF r.raised THEN store
                    ELSE (text :> r.value) @@ store,
         called |-> TRUE]

\* The memoised call: [result, cache, called].  The wrapped function runs
\* only on a miss, and its value is stored only when it returns.
cached_verify_with_bard(store, text, outcome) ==
    IF text \in DOMAIN store
    THEN [result |-> Returned(store[text]), cache |-> store, called |-> FALSE]
    ELSE LET r == verify_with_bard(text, outcome)
         IN  [result |-> r,
              cache  |-> IF r.raised THEN store ELSE store @@ (text :> r.value),
              called |-> TRUE]

-----------------------------------------------------------------------------
(* utils/video_processor.py.  A video source is [opened, frames]: whether  *)
(* cv2.VideoCapture could open it and how many frames it decodes to.  A    *)
(* sampled frame is named by its decoded position.                         *)

\* cap.read() at decoded position p: the flag it returns
CapRead(video, p) == video.opened /\ p < video.frames

RECURSIVE SampledFramesCountingFromOne(_, _, _)
\* the decode loop with frame_id incremented before the stride test
SampledFramesCountingFromOne(video, frame_skip, frame_id) ==
    IF ~CapRead(video, frame_id) THEN <<>>
    ELSE (IF (frame_id + 1) % frame_skip = 0 THEN <<frame_id>> ELSE <<>>)
         \o SampledFramesCountingFromOne(video, frame_skip, frame_id + 1)

RECURSIVE SampledFrames(_, _, _)
\* the decode loop of analyze_video_for_duplicates, from frame_id on
SampledFrames(video, frame_skip, frame_id) ==
    IF ~CapRead(video, frame_id) THEN <<>>
    ELSE (IF frame_id % frame_skip = 0 THEN <<frame_id>> ELSE <<>>)
         \o SampledFrames(video, frame_skip, frame_id + 1)

\* the comparison with >= for >
IsDuplicateAtThreshold(score, similarity_threshold) == score >= similarity_threshold

\* score > similarity_threshold
IsDuplicate(score, similarity_threshold) == score > similarity_threshold

RECURSIVE DuplicatePairs(_, _, _, _)
\* the comparison loop, from index i on; scores[i] is what the i-th ssim call returns
DuplicatePairs(frames, scores, similarity_threshold, i) ==
    IF i > Len(frames) - 1 THEN <<>>
    ELSE (IF IsDuplicate(scores[i], similarity_threshold)
             THEN << <<frames[i], frames[i + 1]>> >> ELSE <<>>)
         \o DuplicatePairs(frames, scores, similarity_threshold, i + 1)

analyze_video_for_duplicates(video, frame_skip, similarity_threshold, scores) ==
    LET frames == SampledFrames(video, frame_skip, 0)
        duplicate_pairs == DuplicatePairs(frames, scores, similarity_threshold, 1)
    IN  Returned([total_frames_extracted |-> Len(frames),
                  duplicate_count        |-> Len(duplicate_pairs),
                  duplicate_frame_pairs  |-> duplicate_pairs])

RECURSIVE ExtractLoop(_, _, _, _, _, _)
\* the loop of extract_visible_text_from_frames; ocr[k] is what the k-th
\* pytesseract.image_to_string call does: it returns a text or raises
ExtractLoop(video, frame_skip, ocr, frame_count, ncalls, visible_text) ==
    IF ~CapRead(video, frame_count)
    THEN Returned(Join(visible_text, <<"\n">>))
    ELSE IF frame_count % frame_skip = 0
         THEN LET o == ocr[ncalls + 1]
              IN  IF o.raised THEN Raised(o.value)
                  ELSE ExtractLoop(video, frame_skip, ocr, frame_count + 1, ncalls + 1,
                                   IF Strip(o.value) # <<>>
                                      THEN Append(visible_text, Strip(o.value))
                                      ELSE visible_text)
         ELSE ExtractLoop(video, frame_skip, ocr, frame_count + 1, ncalls, visible_text)

extract_visible_text_from_frames(video, frame_skip, ocr) ==
    ExtractLoop(video, frame_skip, ocr, 0, 0, <<>>)

-----------------------------------------------------------------------------
(* Bounds and input sets.                                                  *)

NormLen == 7

NormAlphabet == {"1", ":", "<", ">", " "}

\* all texts of at most n characters of the alphabet
Texts(alphabet, n) == UNION {[1..k -> alphabet] : k \in 0..n}

-----------------------------------------------------------------------------
(* State outside a pipeline run.                                           *)

NoProcess ==
    /\ cache = << >>
    /\ oracle_calls = << >>
    /\ first_verdict = << >>

NoRun ==
    /\ video_path = Absent
    /\ subtitle_path = Absent
    /\ transcript = Absent
    /\ duplicate_report = Absent
    /\ subtitle_text = Absent
    /\ frame_text = Absent
    /\ verification_prompt = Absent
    /\ verification = None
    /\ confidence = Absent
    /\ oracle = None
    /\ raised_in = None

-----------------------------------------------------------------------------
(* The transcript normaliser applied once, then again to its own output.   *)

InitNormalize ==
    /\ NoProcess /\ NoRun
    /\ pc = "call"
    /\ arg \in Texts(NormAlphabet, NormLen)
    /\ ret = None

NormalizeOnce ==
    /\ pc = "call"
    /\ ret' = clean_extracted_text(arg)
    /\ pc' = "once"
    /\ UNCHANGED << processVars, runVars, arg >>

NormalizeTwice ==
    /\ pc = "once"
    /\ arg' = ret
    /\ ret' = clean_extracted_text(ret)
    /\ pc' = "twice"
    /\ UNCHANGED << processVars, runVars >>

NextNormalize == NormalizeOnce \/ NormalizeTwice

SpecNormalize == InitNormalize /\ [][NextNormalize]_vars

\* C8: the transcript normaliser is idempotent: normalising the output of
\* one application changes nothing.
C8_Idempotent == pc = "twice" => ret = arg

-----------------------------------------------------------------------------
(* The subtitle normaliser on caption files.  A file is an optional        *)
(* "WEBVTT" header and cues of [index line][timing line][text lines]       *)
(* [blank line], as the video source collaborator writes them.             *)

MaxCues == 2

MaxPayload == 2

HeaderLine == <<"W", "E", "B", "V", "T", "T">>

CueIndexes == {<<"1">>, <<"1", "2">>}

TimingLines == {<<"0", ":", "0", "1", " ", "-", "-", ">", " ", "0", ":", "0", "2">>}

\* caption text: a word, a padded phrase, and a caption that is a number
PayloadLines == {<<"a">>, <<" ", "b", " ", "c", " ">>, <<"7">>}

\* cues of at most maxPayload text lines
Cues(maxPayload) ==
    UNION {[index : CueIndexes, timing : TimingLines, payload : [1..k -> PayloadLines]]
              : k \in 1..maxPayload}

\* files of at most maxCues cues
CaptionFiles(maxCues, maxPayload) ==
    UNION {[header : BOOLEAN, cues : [1..k -> Cues(maxPayload)]] : k \in 0..maxCues}

RECURSIVE CueLines(_, _)
\* the lines of cues[i..]
CueLines(cues, i) ==
    IF i > Len(cues) THEN <<>>
    ELSE <<cues[i].index, cues[i].timing>> \o cues[i].payload \o << <<>> >>
         \o CueLines(cues, i + 1)

FileLines(f) ==
    (IF f.header THEN <<HeaderLine, <<>> >> ELSE <<>>) \o CueLines(f.cues, 1)

RECURSIVE CueTexts(_, _)
\* the free-text lines of cues[i..], in order
CueTexts(cues, i) ==
    IF i > Len(cues) THEN <<>>
    ELSE cues[i].payload \o CueTexts(cues, i + 1)

InitVtt ==
    /\ NoProcess /\ NoRun
    /\ pc = "call"
    /\ arg \in CaptionFiles(MaxCues, MaxPayload)
    /\ ret = None

CallVtt ==
    /\ pc = "call"
    /\ ret' = vtt_to_plaintext(FileLines(arg))
    /\ pc' = "returned"
    /\ UNCHANGED << processVars, runVars, arg >>

NextVtt == CallVtt

SpecVtt == InitVtt /\ [][NextVtt]_vars

\* the free-text lines of the file, trimmed: all that is neither blank, nor
\* the cue index of a block, nor a timing line
FreeTextLines(f) ==
    LET kept == (IF f.header THEN <<HeaderLine>> ELSE <<>>) \o CueTexts(f.cues, 1)
    IN  [i \in 1..Len(kept) |-> Strip(kept[i])]

\* C9: the subtitle normaliser returns the single-space join, in order and
\* without deduplication, of every free-text line; only blank, cue-index
\* and timing lines are discarded.
C9_KeepsFreeText ==
    pc = "returned" => ret = Join(FreeTextLines(arg), <<" ">>)

\* the same cases with no caption that is a number: the code agrees there
C9_NonNumericAgree ==
    (pc = "returned"
       /\ \A i \in 1..Len(arg.cues) : \A k \in 1..Len(arg.cues[i].payload) :
             ~AllDigits(Strip(arg.cues[i].payload[k])))
    => ret = Join(FreeTextLines(arg), <<" ">>)

-----------------------------------------------------------------------------
(* The evidence aggregator on triples (transcript, subtitles, frame text). *)

FieldWords == 1

Vocabulary ==
    {<<"a">>, <<"1", ":", "2", "3">>, <<"<", "b", ">">>, <<" ">>, <<"<">>, <<">">>}

RECURSIVE Phrases(_)
\* texts of at most n words of the vocabulary
Phrases(n) ==
    IF n = 0 THEN {<<>>}
    ELSE LET shorter == Phrases(n - 1)
         IN  shorter \cup {t \o w : t \in shorter, w \in Vocabulary}

InitAggregate ==
    /\ NoProcess /\ NoRun
    /\ pc = "call"
    /\ arg \in Phrases(FieldWords) \X Phrases(FieldWords) \X Phrases(FieldWords)
    /\ ret = <<>>

\* lines 131-135 of process_video_and_audio on the triple
Aggregate ==
    /\ pc = "call"
    /\ ret' = <<create_verification_prompt(combined_text(arg[1], arg[2], arg[3]))>>
    /\ pc' = "returned"
    /\ UNCHANGED << processVars, runVars, arg >>

AggregateAgain ==
    /\ pc = "returned"
    /\ ret' = Append(ret, create_verification_prompt(combined_text(arg[1], arg[2], arg[3])))
    /\ pc' = "again"
    /\ UNCHANGED << processVars, runVars, arg >>

NextAggregate == Aggregate \/ AggregateAgain

SpecAggregate == InitAggregate /\ [][NextAggregate]_vars

\* the non-empty fields of a triple, in the order transcript, subtitles, frame text
NonEmptyFields(triple) ==
    (IF triple[1] # <<>> THEN <<triple[1]>> ELSE <<>>)
    \o (IF triple[2] # <<>> THEN <<triple[2]>> ELSE <<>>)
    \o (IF triple[3] # <<>> THEN <<triple[3]>> ELSE <<>>)

\* C10: the prompt is the preamble followed by the normalised newline-join
\* of the non-empty fields in the order transcript, subtitles, frame text;
\* it depends on the triple alone, and for the all-empty triple it is the
\* preamble followed by empty content.
C10_Prompt ==
    \A i \in 1..Len(ret) :
        /\ ret[i] = Preamble \o clean_extracted_text(Join(NonEmptyFields(arg), <<"\n">>))
        /\ ret[i] = ret[1]
        /\ arg = << <<>>, <<>>, <<>> >> => ret[i] = Preamble

\* an empty field is dropped and the normaliser changes the join
C10_Witness ==
    /\ pc = "again"
    /\ arg[1] # <<>> /\ arg[2] = <<>> /\ arg[3] # <<>>
    /\ ret[2] # Preamble
    /\ ret[2] # Preamble \o Join(NonEmptyFields(arg), <<"\n">>)

-----------------------------------------------------------------------------
(* The duplicate scan and the frame-text extraction on video sources.      *)

MaxFrames == 4

MaxStride == 3

MaxCount == 2

\* similarity_threshold=0.97, in hundredths
SimilarityThreshold == 97

\* what ssim may return, in hundredths: below, at and above the threshold
Scores == {96, 97, 98}

\* what one OCR call may do: raise, or return a text
OcrOutcomes ==
    {Raised("TesseractError"), Returned(<<" ">>), Returned(<<"a">>),
     Returned(<<" ", "b", "\n">>)}

Videos == [opened : BOOLEAN, frames : 0..MaxFrames]

Strides == 1..MaxStride

Max(a, b) == IF a > b THEN a ELSE b

AnalyzeArgs ==
    UNION {[fn : {"analyze"}, video : {v}, frame_skip : {s},
            scores : [1..Max(0, Len(SampledFrames(v, s, 0)) - 1) -> Scores]]
              : v \in Videos, s \in Strides}

ExtractArgs ==
    UNION {[fn : {"extract"}, video : {v}, frame_skip : {s},
            ocr : [1..Len(SampledFrames(v, s, 0)) -> OcrOutcomes]]
              : v \in Videos, s \in Strides}

InitVideo ==
    /\ NoProcess /\ NoRun
    /\ pc = "call"
    /\ arg \in AnalyzeArgs \cup ExtractArgs
    /\ ret = None

CallAnalyze ==
    /\ pc = "call"
    /\ arg.fn = "analyze"
    /\ ret' = analyze_video_for_duplicates(arg.video, arg.frame_skip,
                                           SimilarityThreshold, arg.scores)
    /\ pc' = "returned"
    /\ UNCHANGED << processVars, runVars, arg >>

CallExtract ==
    /\ pc = "call"
    /\ arg.fn = "extract"
    /\ ret' = extract_visible_text_from_frames(arg.video, arg.frame_skip, arg.ocr)
    /\ pc' = "returned"
    /\ UNCHANGED << processVars, runVars, arg >>

NextVideo == CallAnalyze \/ CallExtract

SpecVideo == InitVideo /\ [][NextVideo]_vars

Analyzed == pc = "returned" /\ arg.fn = "analyze"

Extracted == pc = "returned" /\ arg.fn = "extract"

\* the decoded positions the scan of the call retained
Retained == SampledFrames(arg.video, arg.frame_skip, 0)

OverThreshold == {i \in 1..(Len(Retained) - 1) : arg.scores[i] > SimilarityThreshold}

\* C7: the detector reports exactly the adjacent sampled pairs whose score
\* is strictly greater than the threshold, in increasing order; at most
\* max(0, n-1) pairs, none and no error when n <= 1; duplicate_count is the
\* number of reported pairs and total_frames_extracted is n.
C7_AdjacentPairs ==
    Analyzed =>
        LET n == Len(Retained)
            pairs == ret.value.duplicate_frame_pairs
        IN  /\ ~ret.raised
            /\ Len(pairs) = Cardinality(OverThreshold)
            /\ \A k \in 1..Len(pairs) :
                  \E i \in OverThreshold :
                      /\ Cardinality({j \in OverThreshold : j <= i}) = k
                      /\ pairs[k] = <<Retained[i], Retained[i + 1]>>
            /\ Len(pairs) <= Max(0, n - 1)
            /\ (n <= 1 => pairs = <<>>)
            /\ ret.value.duplicate_count = Len(pairs)
            /\ ret.value.total_frames_extracted = n

\* four sampled frames: the middle pair scores exactly the threshold
C7_Witness ==
    /\ Analyzed
    /\ arg.frame_skip = 1 /\ arg.video.opened /\ arg.video.frames = 4
    /\ arg.scores = <<98, 97, 98>>
    /\ ret.value.duplicate_frame_pairs = << <<0, 1>>, <<2, 3>> >>

RECURSIVE SuccessfulTexts(_, _)
\* the trimmed non-empty texts of the OCR calls ocr[i..] that returned
SuccessfulTexts(ocr, i) ==
    IF i > Len(ocr) THEN <<>>
    ELSE (IF ~ocr[i].raised /\ Strip(ocr[i].value) # <<>>
             THEN <<Strip(ocr[i].value)>> ELSE <<>>)
         \o SuccessfulTexts(ocr, i + 1)

\* C5: an OCR call that raises on one sampled frame does not abort the
\* batch: the result is the newline-join, in frame order, of the trimmed
\* non-empty texts of the frames whose OCR call succeeded.
C5_FrameIsolated ==
    Extracted =>
        /\ ~ret.raised
        /\ ret.value = Join(SuccessfulTexts(arg.ocr, 1), <<"\n">>)

\* the same when no OCR call raises: the code agrees there
C5_NoRaiseAgree ==
    (Extracted /\ \A i \in 1..Len(arg.ocr) : ~arg.ocr[i].raised)
    => /\ ~ret.raised
       /\ ret.value = Join(SuccessfulTexts(arg.ocr, 1), <<"\n">>)

-----------------------------------------------------------------------------
(* The pipeline: runs of process_video_and_audio and text-verification     *)
(* requests of main, one after another in one process.                     *)

RunFrames == 6

\* frame_skip=5 of analyze_video_for_duplicates
FrameSkipDuplicates == 5

\* frame_skip=30 of extract_visible_text_from_frames
FrameSkipText == 30

\* confidence = 0.9 and confidence = 0.85, in percent
ConfidenceVideo == 90

ConfidenceText == 85

RunVideos ==
    {[opened |-> FALSE, frames |-> 0], [opened |-> TRUE, frames |-> 0],
     [opened |-> TRUE, frames |-> RunFrames]}

RunSubtitles ==
    {Absent,
     Some([header |-> FALSE,
           cues |-> <<[index |-> <<"1">>,
                       timing |-> <<"0", ":", "0", "1", " ", "-", "-", ">", " ", "0", ":", "0", "2">>,
                       payload |-> << <<"a">> >>]>>])}

\* what transcribe_audio may do: raise, or return a transcript
TranscribeOutcomes == {Raised("RuntimeError"), Returned(<<>>), Returned(<<"a">>)}

RunOcrOutcomes == {Raised("TesseractError"), Returned(<<" ">>), Returned(<<"a">>)}

\* what bard.get_answer may do on one call
OracleOutcomes == {Raised("quota"), Returned("Yes"), Returned("No")}

RawTexts == {<<>>, <<"a">>, <<" ", "a", "\n">>}

Init ==
    /\ NoProcess /\ NoRun
    /\ pc = "idle"
    /\ arg = Absent
    /\ ret = Absent

\* an exception leaves process_video_and_audio from the given stage
Fail(stage) ==
    /\ pc' = "failed"
    /\ raised_in' = stage

\* main, lines 195-220: a video request enters process_video_and_audio
StartRun ==
    /\ pc = "idle"
    /\ \E v \in RunVideos, s \in RunSubtitles :
          /\ video_path' = Some(v)
          /\ subtitle_path' = s
    /\ pc' = "transcribing"
    /\ UNCHANGED << processVars, transcript, duplicate_report, subtitle_text,
                    frame_text, verification_prompt, verification, confidence,
                    oracle, raised_in, callVars >>

\* lines 94-97
Transcribe ==
    /\ pc = "transcribing"
    /\ \E o \in TranscribeOutcomes :
          IF o.raised
          THEN Fail("transcribing") /\ UNCHANGED transcript
          ELSE /\ transcript' = o.value
               /\ pc' = "duplicate_scan"
               /\ UNCHANGED raised_in
    /\ UNCHANGED << processVars, video_path, subtitle_path, duplicate_report,
                    subtitle_text, frame_text, verification_prompt, verification,
                    confidence, oracle, callVars >>

\* lines 99-109.  Lines 104-117 only display the report, the transcript, the
\* language and the trigger words; detect_language catches its own error.
DuplicateScan ==
    /\ pc = "duplicate_scan"
    /\ \E scores \in [1..Max(0, Len(SampledFrames(video_path[1], FrameSkipDuplicates, 0)) - 1)
                        -> Scores] :
          LET r == analyze_video_for_duplicates(video_path[1], FrameSkipDuplicates,
                                                SimilarityThreshold, scores)
          IN  IF r.raised
              THEN Fail("duplicate_scan") /\ UNCHANGED duplicate_report
              ELSE /\ duplicate_report' = Some(r.value)
                   /\ pc' = "subtitles"
                   /\ UNCHANGED raised_in
    /\ UNCHANGED << processVars, video_path, subtitle_path, transcript,
                    subtitle_text, frame_text, verification_prompt, verification,
                    confidence, oracle, callVars >>

\* lines 119-123
Subtitles ==
    /\ pc = "subtitles"
    /\ subtitle_text' = IF subtitle_path # Absent
                           THEN vtt_to_plaintext(FileLines(subtitle_path[1]))
                           ELSE <<>>
    /\ pc' = "frame_text"
    /\ UNCHANGED << processVars, video_path, subtitle_path, transcript,
                    duplicate_report, frame_text, verification_prompt, verification,
                    confidence, oracle, raised_in, callVars >>

\* lines 125-129
FrameText ==
    /\ pc = "frame_text"
    /\ \E ocr \in [1..Len(SampledFrames(video_path[1], FrameSkipText, 0)) -> RunOcrOutcomes] :
          LET r == extract_visible_text_from_frames(video_path[1], FrameSkipText, ocr)
          IN  IF r.raised
              THEN Fail("frame_text") /\ UNCHANGED frame_text
              ELSE /\ frame_text' = r.value
                   /\ pc' = "aggregating"
                   /\ UNCHANGED raised_in
    /\ UNCHANGED << processVars, video_path, subtitle_path, transcript,
                    duplicate_report, subtitle_text, verification_prompt, verification,
                    confidence, oracle, callVars >>

\* lines 131-135
AggregateEvidence ==
    /\ pc = "aggregating"
    /\ verification_prompt' =
          create_verification_prompt(combined_text(transcript, subtitle_text, frame_text))
    /\ pc' = "verifying"
    /\ UNCHANGED << processVars, video_path, subtitle_path, transcript,
                    duplicate_report, subtitle_text, frame_text, verification,
                    confidence, oracle, raised_in, callVars >>

\* the try/except around cached_verify_with_bard (lines 136-150, 179-193):
\* the prompt is verified through the cache, outcome is what the oracle
\* would do if called, and score is the confidence the branch assigns
VerifyThroughCache(prompt, outcome, score) ==
    LET c == cached_verify_with_bard(cache, prompt, outcome)
        shown == IF c.result.raised THEN "Bard API error: " \o c.result.value
                 ELSE c.result.value
    IN  /\ cache' = c.cache
        /\ oracle_calls' =
              IF ~c.called THEN oracle_calls
              ELSE IF prompt \in DOMAIN oracle_calls
                   THEN [oracle_calls EXCEPT ![prompt] = @ + 1]
                   ELSE oracle_calls @@ (prompt :> 1)
        /\ first_verdict' =
              IF prompt \in DOMAIN first_verdict THEN first_verdict
              ELSE first_verdict @@ (prompt :> shown)
        /\ verification' = shown
        /\ confidence' = IF c.result.raised THEN Absent ELSE Some(score)
        /\ oracle' = IF ~c.called THEN "hit"
                     ELSE IF outcome.raised THEN "raised" ELSE "returned"

\* lines 136-150
Verify ==
    /\ pc = "verifying"
    /\ \E o \in OracleOutcomes : VerifyThroughCache(verification_prompt, o, ConfidenceVideo)
    /\ pc' = "done"
    /\ UNCHANGED << video_path, subtitle_path, transcript, duplicate_report,
                    subtitle_text, frame_text, verification_prompt, raised_in, callVars >>

\* main, lines 166-193: the text branch
TextRequest ==
    /\ pc = "idle"
    /\ \E raw_text \in RawTexts, o \in OracleOutcomes :
          LET prompt == create_verification_prompt(clean_extracted_text(raw_text))
          IN  /\ verification_prompt' = prompt
              /\ VerifyThroughCache(prompt, o, ConfidenceText)
    /\ pc' = "done"
    /\ UNCHANGED << video_path, subtitle_path, transcript, duplicate_report,
                    subtitle_text, frame_text, raised_in, callVars >>

\* the script run ends; the next request starts from fresh locals
Finish ==
    /\ pc \in {"done", "failed"}
    /\ pc' = "idle"
    /\ video_path' = Absent
    /\ subtitle_path' = Absent
    /\ transcript' = Absent
    /\ duplicate_report' = Absent
    /\ subtitle_text' = Absent
    /\ frame_text' = Absent
    /\ verification_prompt' = Absent
    /\ verification' = None
    /\ confidence' = Absent
    /\ oracle' = None
    /\ raised_in' = None
    /\ UNCHANGED << processVars, callVars >>

Next ==
    \/ StartRun
    \/ Transcribe
    \/ DuplicateScan
    \/ Subtitles
    \/ FrameText
    \/ AggregateEvidence
    \/ Verify
    \/ TextRequest
    \/ Finish

Spec == Init /\ [][Next]_vars

-----------------------------------------------------------------------------
(* Claims about the pipeline.                                              *)

\* C1: across any sequence of runs and text requests the oracle is invoked
\* at most once per distinct prompt: the first request for a prompt makes
\* the one call, and every request shows the verdict the first one showed,
\* a later one answered from the cache with no new oracle call.
C1_OncePerPrompt ==
    /\ \A p \in DOMAIN oracle_calls : oracle_calls[p] <= 1
    /\ \A p \in DOMAIN first_verdict : p \in DOMAIN oracle_calls /\ oracle_calls[p] = 1
    /\ pc = "done" =>
          /\ verification_prompt \in DOMAIN first_verdict
          /\ verification = first_verdict[verification_prompt]

\* a video run answered from the cache, after requests for other prompts
C1_Witness ==
    /\ pc = "done"
    /\ oracle = "hit"
    /\ video_path # Absent
    /\ confidence = Some(ConfidenceVideo)
    /\ verification = "No"
    /\ oracle_calls[verification_prompt] = 1
    /\ Cardinality(DOMAIN oracle_calls) > 1

\* C3: a run ends in FAILED only from the sampling stage or from the
\* verification stage; a failure raised in any other stage does not fail
\* the run.
C3_FailsOnlyInSamplingOrVerification ==
    pc = "failed" => raised_in \in {"sampling", "verifying"}

\* C4: whenever the oracle call fails the value shown where the verdict
\* goes is an error string and the confidence is absent; a confidence is
\* present only when the oracle returned a verdict.
C4_NoConfidenceOnOracleFailure ==
    (pc = "done" /\ oracle = "raised") =>
        /\ verification \in {BardError(o.value) : o \in {x \in OracleOutcomes : x.raised}}
        /\ confidence = Absent

\* C6: when the video source cannot be opened the scan fails with an error
\* and the run produces no duplicate report: an unopenable source is never
\* reported as a successful scan with zero frames.
C6_UnopenableSourceFails ==
    (video_path # Absent /\ ~video_path[1].opened) => duplicate_report = Absent

\* the other half of C6, which the code meets: a source that opens and ends
\* early is scanned without error to the frames it has
C6_EarlyEndIsNoError ==
    (video_path # Absent /\ video_path[1].opened /\ pc \in {"subtitles", "frame_text"})
    => /\ duplicate_report # Absent
       /\ duplicate_report[1].total_frames_extracted
             = (video_path[1].frames + FrameSkipDuplicates - 1) \div FrameSkipDuplicates

=============================================================================
